---- MODULE Spec2Model ----
(***************************************************************************)
(* Model of render_bootstrap.py: the Render launcher for a Streamlit app.  *)
(*                                                                         *)
(* Strings are sequences of one-character strings, so that strip(), int(), *)
(* str() and lower() are modelled by what they do to the characters.       *)
(* os.environ is a function whose DOMAIN is the set of variables that are  *)
(* set.                                                                    *)
(***************************************************************************)
EXTENDS Integers, Sequences, FiniteSets, TLC

\* ------------------------------------------------------------------ bounds
MaxPortLen == 3        \* longest port string drawn for PORT / STREAMLIT_SERVER_PORT
MaxCalls == 2          \* calls of _apply_render_defaults made by an importing caller
MaxInvocations == 3    \* invocations of the signal-handler set-up by the framework

\* ------------------------------------------------------- program constants
DefaultPort == 8501
DefaultPortStr == <<"8", "5", "0", "1">>
DefaultAddress == <<"0", ".", "0", ".", "0", ".", "0">>
DefaultHeadless == <<"t", "r", "u", "e">>
DefaultGatherStats == <<"f", "a", "l", "s", "e">>
TrueStr == <<"t", "r", "u", "e">>

ADDRESS == "STREAMLIT_SERVER_ADDRESS"
SERVER_PORT == "STREAMLIT_SERVER_PORT"
HEADLESS == "STREAMLIT_SERVER_HEADLESS"
GATHERSTATS == "STREAMLIT_BROWSER_GATHERUSAGESTATS"
PORT == "PORT"

\* ---------------------------------------------------------------- strings
DigitChars == <<"0", "1", "2", "3", "4", "5", "6", "7", "8", "9">>
Digits == {DigitChars[i] : i \in 1..10}
DigitVal(c) == (CHOOSE i \in 1..10 : DigitChars[i] = c) - 1
Whitespace == {" "}

UpperChars == <<"A", "B", "C", "D", "E", "F", "G", "H", "I", "J", "K", "L", "M",
                "N", "O", "P", "Q", "R", "S", "T", "U", "V", "W", "X", "Y", "Z">>
LowerChars == <<"a", "b", "c", "d", "e", "f", "g", "h", "i", "j", "k", "l", "m",
                "n", "o", "p", "q", "r", "s", "t", "u", "v", "w", "x", "y", "z">>

LowerChar(c) ==
    IF \E i \in 1..26 : UpperChars[i] = c
    THEN LowerChars[CHOOSE i \in 1..26 : UpperChars[i] = c]
    ELSE c

\* Variant: the value is compared without lowering it.
Lower_Identity(s) == s

\* str.lower(): every cased character is replaced by its lowercase form.
Lower(s) == [i \in 1..Len(s) |-> LowerChar(s[i])]

RECURSIVE LStrip(_)
LStrip(s) ==
    IF s # <<>> /\ Head(s) \in Whitespace THEN LStrip(Tail(s)) ELSE s

RECURSIVE RStrip(_)
RStrip(s) ==
    IF s # <<>> /\ s[Len(s)] \in Whitespace
    THEN RStrip(SubSeq(s, 1, Len(s) - 1))
    ELSE s

\* str.strip(): leading and trailing whitespace removed.
Strip(s) == RStrip(LStrip(s))

\* Accumulates the digits of a literal left to right, skipping underscores.
RECURSIVE DigitsValue(_, _)
DigitsValue(s, acc) ==
    IF s = <<>> THEN acc
    ELSE IF Head(s) = "_" THEN DigitsValue(Tail(s), acc)
    ELSE DigitsValue(Tail(s), acc * 10 + DigitVal(Head(s)))

\* int(s), base 10: surrounding whitespace is ignored, one optional sign,
\* then digits, with single underscores allowed between digits.  Anything
\* else raises ValueError (ok = FALSE).
ParseInt(s) ==
    LET t == Strip(s)
        signed == t # <<>> /\ t[1] \in {"+", "-"}
        body == IF signed THEN Tail(t) ELSE t
        wellFormed ==
            /\ body # <<>>
            /\ \A i \in 1..Len(body) : body[i] \in Digits \cup {"_"}
            /\ body[1] \in Digits
            /\ body[Len(body)] \in Digits
            /\ \A i \in 1..(Len(body) - 1) : ~(body[i] = "_" /\ body[i + 1] = "_")
        magnitude == DigitsValue(body, 0)
    IN  IF wellFormed
        THEN [ok |-> TRUE,
              value |-> IF signed /\ t[1] = "-" THEN 0 - magnitude ELSE magnitude]
        ELSE [ok |-> FALSE, value |-> 0]

RECURSIVE NatStr(_)
NatStr(n) ==
    IF n < 10 THEN <<DigitChars[n + 1]>>
    ELSE Append(NatStr(n \div 10), DigitChars[(n % 10) + 1])

\* str(n) for an int: canonical decimal, "-" for negatives.
Str(n) == IF n < 0 THEN <<"-">> \o NatStr(0 - n) ELSE NatStr(n)

\* ------------------------------------------------------------- os.environ
EmptyEnv == [n \in {} |-> <<>>]

\* Variant: plain assignment where setdefault is meant.
SetDefault_Overwrite(env, name, value) == (name :> value) @@ env

\* os.environ.setdefault(name, value)
SetDefault(env, name, value) ==
    IF name \in DOMAIN env THEN env ELSE (name :> value) @@ env

\* os.environ[name] = value
SetItem(env, name, value) == (name :> value) @@ env

\* os.getenv(name, default)
GetEnv(env, name, default) ==
    IF name \in DOMAIN env THEN env[name] ELSE default

\* ----------------------------------------------- _apply_render_defaults
\* Variant: STREAMLIT_SERVER_PORT is assigned from PORT on every call.
WithDefaults_AssignPort(env) ==
    LET e1 == SetDefault(env, ADDRESS, DefaultAddress)
        e2 == SetItem(e1, SERVER_PORT, GetEnv(e1, PORT, DefaultPortStr))
        e3 == SetDefault(e2, HEADLESS, DefaultHeadless)
        e4 == SetDefault(e3, GATHERSTATS, DefaultGatherStats)
    IN  e4

\* The environment after the four setdefault calls (lines 54-57).
WithDefaults(env) ==
    LET e1 == SetDefault(env, ADDRESS, DefaultAddress)
        e2 == SetDefault(e1, SERVER_PORT, GetEnv(e1, PORT, DefaultPortStr))
        e3 == SetDefault(e2, HEADLESS, DefaultHeadless)
        e4 == SetDefault(e3, GATHERSTATS, DefaultGatherStats)
    IN  e4

\* Variant: the fallback yields port 0 (let the system pick) instead of 8501.
ResolvePort_ZeroFallback(env) ==
    LET parsed == ParseInt(Strip(env[SERVER_PORT]))
    IN  IF parsed.ok THEN parsed.value ELSE 0

\* The port resolved from the defaulted environment (lines 61-67).
ResolvePort(env) ==
    LET port_env == Strip(env[SERVER_PORT])
        parsed == ParseInt(port_env)
    IN  IF parsed.ok THEN parsed.value ELSE DefaultPort

\* The returned mapping (lines 70-77).
FlagOptions(env, port) ==
    ("server.address" :> env[ADDRESS])
    @@ ("server.port" :> port)
    @@ ("server.headless" :> (Lower(env[HEADLESS]) = TrueStr))
    @@ ("browser.gatherUsageStats" :> (Lower(env[GATHERSTATS]) = TrueStr))

\* Variant: PORT receives the stripped text instead of str(port).
apply_render_defaults_RawPort(env) ==
    LET e4 == WithDefaults(env)
        port == ResolvePort(e4)
        e5 == SetItem(e4, PORT, Strip(e4[SERVER_PORT]))
    IN  [environ |-> e5, options |-> FlagOptions(e5, port)]

\* The whole function: the environment it leaves and the mapping it returns.
apply_render_defaults(env) ==
    LET e4 == WithDefaults(env)
        port == ResolvePort(e4)
        e5 == SetItem(e4, PORT, Str(port))
    IN  [environ |-> e5, options |-> FlagOptions(e5, port)]

\* ------------------------------------------------- signal-handler set-up
MainThread == "main"
Threads == {"main", "worker"}
Servers == {"server1", "server2"}

\* threading.current_thread() is threading.main_thread()
IsMainThread(t) == t = MainThread

\* The framework's own handler set-up (bootstrap._set_up_signal_handler as
\* imported, bound to _original_set_up_signal_handler): it installs the
\* signal handlers for the server it is given; signal.signal raises
\* ValueError when it is not called from the main thread.
original_set_up_signal_handler(t, server, log) ==
    [log |-> Append(log, [thread |-> t, server |-> server]),
     raised |-> ~IsMainThread(t)]

\* Variant: the wrapper never delegates.
safe_set_up_signal_handler_NeverCalls(t, server, log) ==
    [log |-> log, raised |-> FALSE]

\* Variant: the wrapper delegates without looking at the thread.
safe_set_up_signal_handler_NoThreadCheck(t, server, log) ==
    original_set_up_signal_handler(t, server, log)

\* _safe_set_up_signal_handler(server) run by thread t; log is the sequence
\* of calls the original handler has received so far.
safe_set_up_signal_handler(t, server, log) ==
    IF IsMainThread(t)
    THEN original_set_up_signal_handler(t, server, log)
    ELSE [log |-> log, raised |-> FALSE]

\* ------------------------------------------------------------ input sets
SeqsUpTo(S, n) == UNION {[1..k -> S] : k \in 0..n}

\* Either unset, or set to one of the values.
OptVar(name, values) == {EmptyEnv} \cup {name :> v : v \in values}

PortChars == {"0", "7", " ", "x", "-", "+", "_"}
PortStrings == SeqsUpTo(PortChars, MaxPortLen)
ShortPortStrings == SeqsUpTo(PortChars, 1)

FlagStrings ==
    { <<"t", "r", "u", "e">>, <<"T", "r", "u", "e">>, <<"T", "R", "U", "E">>,
      <<"t", "R", "u", "E">>, <<"f", "a", "l", "s", "e">>, <<"F", "A", "L", "S", "E">>,
      <<>>, <<"1">>, <<"y", "e", "s">>, <<" ", "t", "r", "u", "e">>,
      <<"t", "r", "u", "e", " ">>, <<"t", "r", "u">>, <<"t", "r", "u", "e", "e">>,
      <<"T", "R", "U", "F">> }

LocalAddress == <<"1", "2", "7", ".", "0", ".", "0", ".", "1">>

\* Environments that exercise the port: the port-source variable ranges
\* over every string of PortChars up to MaxPortLen.
PortEnvs ==
    { a @@ sp @@ p @@ h @@ g :
        a \in OptVar(ADDRESS, {LocalAddress}),
        sp \in {EmptyEnv},
        p \in OptVar(PORT, PortStrings),
        h \in OptVar(HEADLESS, {<<"T", "R", "U", "E">>}),
        g \in OptVar(GATHERSTATS, {<<"T", "r", "u", "e">>}) }
    \cup
    { a @@ sp @@ p @@ h @@ g :
        a \in OptVar(ADDRESS, {LocalAddress}),
        sp \in {SERVER_PORT :> v : v \in PortStrings},
        p \in OptVar(PORT, ShortPortStrings),
        h \in OptVar(HEADLESS, {<<"T", "R", "U", "E">>}),
        g \in OptVar(GATHERSTATS, {<<"T", "r", "u", "e">>}) }

\* Environments that exercise the two boolean flags.
FlagEnvs ==
    { a @@ sp @@ p @@ h @@ g :
        a \in OptVar(ADDRESS, {LocalAddress}),
        sp \in OptVar(SERVER_PORT, {<<"7">>}),
        p \in OptVar(PORT, {<<"7", "0">>}),
        h \in OptVar(HEADLESS, FlagStrings),
        g \in OptVar(GATHERSTATS, FlagStrings) }

DefaultsEnvs == PortEnvs \cup FlagEnvs

\* Environments the launcher is started in.
LauncherEnvs ==
    { a @@ sp @@ p @@ h @@ g :
        a \in OptVar(ADDRESS, {LocalAddress}),
        sp \in OptVar(SERVER_PORT, {<<"7">>, <<"x">>}),
        p \in OptVar(PORT, {<<"7", "0">>, <<" ", "7">>}),
        h \in OptVar(HEADLESS, {<<"T", "r", "u", "e">>, <<"1">>}),
        g \in OptVar(GATHERSTATS, {<<"T", "R", "U", "E">>, <<"f", "a", "l", "s", "e">>}) }

\* ------------------------------------------------------------------ state
VARIABLES
    environ,         \* os.environ
    flag_options,    \* the mapping last returned by _apply_render_defaults
    handler,         \* bootstrap._set_up_signal_handler: "original" or "safe"
    original_ref,    \* _original_set_up_signal_handler: "unbound" or "original"
    pc,              \* position of the module's top-level code
    run_options,     \* flag_options received by bootstrap.run
    tstate,          \* per thread: "idle", or "entered" inside the handler set-up
    targ,            \* per thread: the server argument of its invocation
    original_calls,  \* calls received by the framework's original handler
    raised,          \* threads in which a set-up raised ValueError
    pre_environ,     \* history: os.environ at entry of the last call
    calls,           \* history: number of calls of _apply_render_defaults
    invocations,     \* history: invocations of bootstrap._set_up_signal_handler
    returned,        \* history: per thread, invocations that returned normally
    events           \* history: launcher events in order

vars == <<environ, flag_options, handler, original_ref, pc, run_options, tstate,
          targ, original_calls, raised, pre_environ, calls, invocations,
          returned, events>>

NoOptions == EmptyEnv

threadVars == <<tstate, targ, original_calls, raised, invocations, returned>>
callVars == <<environ, flag_options, pre_environ, calls>>

InitCommon ==
    /\ flag_options = NoOptions
    /\ run_options = NoOptions
    /\ tstate = [t \in Threads |-> "idle"]
    /\ targ = [t \in Threads |-> "none"]
    /\ original_calls = <<>>
    /\ raised = {}
    /\ pre_environ = environ
    /\ calls = 0
    /\ invocations = <<>>
    /\ returned = [t \in Threads |-> 0]

\* The script is executed as the main program; nothing has run yet.
Init ==
    /\ environ \in LauncherEnvs
    /\ handler = "original"
    /\ original_ref = "unbound"
    /\ pc = "start"
    /\ events = <<>>
    /\ InitCommon

\* Line 18: keep a reference to the framework's handler.
SaveOriginal ==
    /\ pc = "start"
    /\ original_ref' = handler
    /\ pc' = "saved"
    /\ UNCHANGED <<handler, run_options, events>>
    /\ UNCHANGED threadVars
    /\ UNCHANGED callVars

\* Variant: the module never assigns the wrapper to the bootstrap attribute.
PatchBootstrap_NoAssign ==
    /\ pc = "saved"
    /\ handler' = handler
    /\ pc' = "patched"
    /\ events' = Append(events, "patch")
    /\ UNCHANGED <<original_ref, run_options>>
    /\ UNCHANGED threadVars
    /\ UNCHANGED callVars

\* Line 39: patch the bootstrap module.
PatchBootstrap ==
    /\ pc = "saved"
    /\ handler' = "safe"
    /\ pc' = "patched"
    /\ events' = Append(events, "patch")
    /\ UNCHANGED <<original_ref, run_options>>
    /\ UNCHANGED threadVars
    /\ UNCHANGED callVars

\* The effect of one call of _apply_render_defaults() on the state.
ApplyCall ==
    LET r == apply_render_defaults(environ)
    IN  /\ pre_environ' = environ
        /\ environ' = r.environ
        /\ flag_options' = r.options
        /\ calls' = calls + 1

\* Line 81: flag_options = _apply_render_defaults()
MainApplyRenderDefaults ==
    /\ pc = "patched"
    /\ ApplyCall
    /\ pc' = "resolved"
    /\ events' = Append(events, "resolve")
    /\ UNCHANGED <<handler, original_ref, run_options>>
    /\ UNCHANGED threadVars

\* Lines 82-91: bootstrap.run(app_path, ..., flag_options=flag_options);
\* the call blocks for the life of the server.
BootstrapRun ==
    /\ pc = "resolved"
    /\ run_options' = flag_options
    /\ pc' = "running"
    /\ events' = Append(events, "run")
    /\ UNCHANGED <<handler, original_ref>>
    /\ UNCHANGED threadVars
    /\ UNCHANGED callVars

\* The running framework calls bootstrap._set_up_signal_handler(server) from
\* thread t; the attribute is read at that moment.
FrameworkSetUp(t, server) ==
    /\ pc = "running"
    /\ tstate[t] = "idle"
    /\ Len(invocations) < MaxInvocations
    /\ invocations' = Append(invocations, [thread |-> t, server |-> server])
    /\ IF handler = "safe"
       THEN /\ tstate' = [tstate EXCEPT ![t] = "entered"]
            /\ targ' = [targ EXCEPT ![t] = server]
            /\ UNCHANGED <<original_calls, raised, returned>>
       ELSE LET r == original_set_up_signal_handler(t, server, original_calls)
            IN  /\ original_calls' = r.log
                /\ raised' = IF r.raised THEN raised \cup {t} ELSE raised
                /\ returned' = IF r.raised THEN returned
                               ELSE [returned EXCEPT ![t] = @ + 1]
                /\ UNCHANGED <<tstate, targ>>
    /\ UNCHANGED <<handler, original_ref, pc, run_options, events>>
    /\ UNCHANGED callVars

\* Lines 21-35: the body of _safe_set_up_signal_handler in thread t.
SafeSetUpSignalHandler(t) ==
    /\ tstate[t] = "entered"
    /\ LET r == safe_set_up_signal_handler(t, targ[t], original_calls)
       IN  /\ original_calls' = r.log
           /\ raised' = IF r.raised THEN raised \cup {t} ELSE raised
           /\ returned' = IF r.raised THEN returned
                          ELSE [returned EXCEPT ![t] = @ + 1]
    /\ tstate' = [tstate EXCEPT ![t] = "idle"]
    /\ targ' = [targ EXCEPT ![t] = "none"]
    /\ UNCHANGED <<handler, original_ref, pc, run_options, events, invocations>>
    /\ UNCHANGED callVars

Next ==
    \/ SaveOriginal
    \/ PatchBootstrap
    \/ MainApplyRenderDefaults
    \/ BootstrapRun
    \/ \E t \in Threads, server \in Servers : FrameworkSetUp(t, server)
    \/ \E t \in Threads : SafeSetUpSignalHandler(t)

Spec == Init /\ [][Next]_vars

\* ---------------------------------------------------------------------
\* The module has been imported (lines 18 and 39 have run, the __main__
\* block has not); the importing caller calls _apply_render_defaults.
InitDefaults ==
    /\ environ \in DefaultsEnvs
    /\ handler = "safe"
    /\ original_ref = "original"
    /\ pc = "imported"
    /\ events = <<"patch">>
    /\ InitCommon

CallApplyRenderDefaults ==
    /\ pc = "imported"
    /\ calls < MaxCalls
    /\ ApplyCall
    /\ UNCHANGED <<handler, original_ref, pc, run_options, events>>
    /\ UNCHANGED threadVars

NextDefaults == CallApplyRenderDefaults

SpecDefaults == InitDefaults /\ [][NextDefaults]_vars

TypeOK ==
    /\ DOMAIN environ \subseteq {ADDRESS, SERVER_PORT, PORT, HEADLESS, GATHERSTATS}
    /\ handler \in {"original", "safe"}
    /\ calls \in 0..MaxCalls

\* =====================================================================
\* Properties.  The vocabulary below is defined independently of the
\* operators used by the actions.
\* =====================================================================
NonSpace(s) == {i \in 1..Len(s) : s[i] # " "}
Min(S) == CHOOSE x \in S : \A y \in S : x <= y
Max(S) == CHOOSE x \in S : \A y \in S : x >= y

\* s without its surrounding whitespace.
Trimmed(s) ==
    IF NonSpace(s) = {} THEN <<>> ELSE SubSeq(s, Min(NonSpace(s)), Max(NonSpace(s)))

FirstDigit(t) == IF t # <<>> /\ t[1] \in {"+", "-"} THEN 2 ELSE 1

\* s is an integer literal, optionally surrounded by whitespace.
IsIntText(s) ==
    LET t == Trimmed(s)
        start == FirstDigit(t)
    IN  /\ start <= Len(t)
        /\ \A i \in start..Len(t) :
              \/ t[i] \in Digits
              \/ /\ t[i] = "_"
                 /\ i > start /\ i < Len(t)
                 /\ t[i - 1] \in Digits /\ t[i + 1] \in Digits

RECURSIVE PositionalValue(_)
PositionalValue(d) ==
    IF d = <<>> THEN 0
    ELSE DigitVal(d[Len(d)]) + 10 * PositionalValue(SubSeq(d, 1, Len(d) - 1))

IsDigit(c) == c \in Digits

\* The integer an integer literal denotes.
IntOf(s) ==
    LET t == Trimmed(s)
        magnitude == PositionalValue(SelectSeq(t, IsDigit))
    IN  IF t # <<>> /\ t[1] = "-" THEN 0 - magnitude ELSE magnitude

\* s is the decimal string of the integer n.
IsDecimalOf(s, n) ==
    LET d == IF s # <<>> /\ s[1] = "-" THEN Tail(s) ELSE s
    IN  /\ d # <<>>
        /\ \A i \in 1..Len(d) : d[i] \in Digits
        /\ Len(d) > 1 => d[1] # "0"
        /\ (s[1] = "-") <=> (n < 0)
        /\ PositionalValue(d) = IF n < 0 THEN 0 - n ELSE n

\* The variable the port is resolved from: STREAMLIT_SERVER_PORT when set,
\* otherwise PORT.
PortSource(env) == IF SERVER_PORT \in DOMAIN env THEN SERVER_PORT ELSE PORT
HasPortSource(env) == PortSource(env) \in DOMAIN env
PortSourceText(env) == env[PortSource(env)]

Called == calls >= 1

\* C1: when the port-source variable holds a string that is not an integer
\* literal, the call completes, returns server.port = 8501 and leaves
\* PORT = "8501".
C1_NonNumericPortFallsBack ==
    (Called /\ HasPortSource(pre_environ) /\ ~IsIntText(PortSourceText(pre_environ)))
        => /\ flag_options["server.port"] = 8501
           /\ PORT \in DOMAIN environ
           /\ environ[PORT] = <<"8", "5", "0", "1">>

C1_Witness ==
    /\ calls = 1
    /\ SERVER_PORT \notin DOMAIN pre_environ
    /\ PORT \in DOMAIN pre_environ
    /\ pre_environ[PORT] = <<"7", "x">>
    /\ environ[PORT] = <<"8", "5", "0", "1">>

\* C2: when the port-source variable holds an integer literal n (optionally
\* surrounded by whitespace), server.port = n and PORT is the decimal string
\* of n afterwards.
C2_NumericPortResolved ==
    (Called /\ HasPortSource(pre_environ) /\ IsIntText(PortSourceText(pre_environ)))
        => /\ flag_options["server.port"] = IntOf(PortSourceText(pre_environ))
           /\ PORT \in DOMAIN environ
           /\ IsDecimalOf(environ[PORT], IntOf(PortSourceText(pre_environ)))

C2_Witness ==
    /\ calls = 1
    /\ SERVER_PORT \in DOMAIN pre_environ
    /\ pre_environ[SERVER_PORT] = <<" ", "0", "7">>
    /\ flag_options["server.port"] = 7
    /\ environ[PORT] = <<"7">>

DefaultedVars == {ADDRESS, SERVER_PORT, HEADLESS, GATHERSTATS}

DefaultOf(v, env) ==
    CASE v = ADDRESS -> <<"0", ".", "0", ".", "0", ".", "0">>
      [] v = SERVER_PORT -> IF PORT \in DOMAIN env THEN env[PORT]
                            ELSE <<"8", "5", "0", "1">>
      [] v = HEADLESS -> <<"t", "r", "u", "e">>
      [] v = GATHERSTATS -> <<"f", "a", "l", "s", "e">>

\* C3: each of the four defaulted variables keeps its value when it was set
\* before the call, and holds its default when it was unset.
C3_DefaultsNeverOverwrite ==
    Called =>
        \A v \in DefaultedVars :
            /\ v \in DOMAIN environ
            /\ environ[v] = IF v \in DOMAIN pre_environ THEN pre_environ[v]
                            ELSE DefaultOf(v, pre_environ)

C3_Witness ==
    /\ calls = 1
    /\ ADDRESS \in DOMAIN pre_environ
    /\ environ[ADDRESS] = LocalAddress
    /\ SERVER_PORT \notin DOMAIN pre_environ
    /\ PORT \in DOMAIN pre_environ
    /\ environ[SERVER_PORT] = <<"7", " ">>
    /\ HEADLESS \notin DOMAIN pre_environ
    /\ GATHERSTATS \in DOMAIN pre_environ

IsMainCall(r) == r.thread = MainThread
IsWorkerCall(r) == r.thread # MainThread
Front(s) == SubSeq(s, 1, Len(s) - 1)

\* The main-thread invocations whose body has run.
CompletedMainInvocations ==
    LET m == SelectSeq(invocations, IsMainCall)
    IN  IF tstate[MainThread] = "entered" THEN Front(m) ELSE m

\* C4: every invocation on the main thread calls the original handler
\* exactly once with the argument it received, and changes nothing else.
C4_MainThreadCallsThrough ==
    /\ [](/\ SelectSeq(original_calls, IsMainCall) = CompletedMainInvocations
          /\ MainThread \notin raised
          /\ returned[MainThread] = Len(CompletedMainInvocations))
    /\ [][returned[MainThread]' # returned[MainThread]
            => UNCHANGED <<environ, flag_options, handler, original_ref, pc,
                           run_options>>]_vars

C4_Witness ==
    /\ returned[MainThread] = 2
    /\ original_calls = <<[thread |-> MainThread, server |-> "server2"],
                          [thread |-> MainThread, server |-> "server1"]>>

InvocationsBy(t) == Cardinality({i \in DOMAIN invocations : invocations[i].thread = t})

\* C5: an invocation off the main thread returns normally and never reaches
\* the original handler, however the threads interleave.
C5_WorkerThreadSkips ==
    /\ SelectSeq(original_calls, IsWorkerCall) = <<>>
    /\ \A t \in Threads \ {MainThread} :
          /\ t \notin raised
          /\ InvocationsBy(t) = returned[t] + (IF tstate[t] = "entered" THEN 1 ELSE 0)

C5_Witness ==
    /\ returned["worker"] = 1
    /\ tstate[MainThread] = "entered"
    /\ original_calls = <<>>
    /\ invocations[1].thread = MainThread

EqualsTrueIgnoringCase(s) ==
    /\ Len(s) = 4
    /\ s[1] \in {"t", "T"}
    /\ s[2] \in {"r", "R"}
    /\ s[3] \in {"u", "U"}
    /\ s[4] \in {"e", "E"}

\* C6: the two flags are booleans, true exactly when the variable's value
\* after defaulting is "true" in any letter case; unset variables give
\* headless = true and gatherUsageStats = false.
C6_FlagsAreCaseInsensitiveBooleans ==
    Called =>
        /\ flag_options["server.headless"] \in BOOLEAN
        /\ flag_options["browser.gatherUsageStats"] \in BOOLEAN
        /\ flag_options["server.headless"] <=> EqualsTrueIgnoringCase(environ[HEADLESS])
        /\ flag_options["browser.gatherUsageStats"]
              <=> EqualsTrueIgnoringCase(environ[GATHERSTATS])
        /\ HEADLESS \notin DOMAIN pre_environ => flag_options["server.headless"]
        /\ GATHERSTATS \notin DOMAIN pre_environ => ~flag_options["browser.gatherUsageStats"]

C6_Witness ==
    /\ calls = 1
    /\ HEADLESS \in DOMAIN pre_environ
    /\ pre_environ[HEADLESS] = <<"t", "R", "u", "E">>
    /\ flag_options["server.headless"]
    /\ GATHERSTATS \in DOMAIN pre_environ
    /\ pre_environ[GATHERSTATS] = <<"t", "r", "u", "e", " ">>
    /\ ~flag_options["browser.gatherUsageStats"]

LaunchOrder == <<"patch", "resolve", "run">>

\* C7: the launcher's events are: patch (once), resolve, run, in that order;
\* the bootstrap is never started with the unpatched handler; and the
\* launcher's main path does nothing after the bootstrap call.
C7_LaunchOrder ==
    /\ [](/\ \E k \in 0..3 : events = SubSeq(LaunchOrder, 1, k)
          /\ pc = "running" => /\ events = LaunchOrder
                               /\ handler = "safe"
                               /\ calls = 1
                               /\ run_options = flag_options)
    /\ [][pc = "running"
            => UNCHANGED <<pc, events, handler, original_ref, run_options,
                           environ, flag_options, calls>>]_vars

C7_Witness ==
    /\ pc = "running"
    /\ events = LaunchOrder
    /\ run_options["server.port"] = 70
    /\ Len(invocations) = 1

\* C8: after the call PORT and STREAMLIT_SERVER_PORT both denote the
\* returned server.port.
C8_PortVariablesAgree ==
    Called =>
        /\ IsIntText(environ[PORT])
        /\ IntOf(environ[PORT]) = flag_options["server.port"]
        /\ IsIntText(environ[SERVER_PORT])
        /\ IntOf(environ[SERVER_PORT]) = flag_options["server.port"]

\* C9: when PORT holds an integer literal p before the call, server.port = p
\* and PORT still denotes p afterwards.
C9_BindsToPlatformPort ==
    (Called /\ PORT \in DOMAIN pre_environ /\ IsIntText(pre_environ[PORT]))
        => /\ flag_options["server.port"] = IntOf(pre_environ[PORT])
           /\ IsIntText(environ[PORT])
           /\ IntOf(environ[PORT]) = IntOf(pre_environ[PORT])

\* C10: a call made after an earlier call returns the same mapping and
\* leaves the environment as it found it.
C10_Idempotent ==
    [][(Called /\ calls' = calls + 1)
         => /\ environ' = environ
            /\ flag_options' = flag_options]_vars

C10_Witness ==
    /\ calls = 2
    /\ SERVER_PORT \in DOMAIN environ
    /\ environ[SERVER_PORT] = <<"+", "7">>
    /\ environ[PORT] = <<"7">>

====
